---- MODULE Spec2Model ----
(***************************************************************************)
(* iplocbuild (src/src/iplocbuild/cli.py): allocation of address ranges to *)
(* cities from configured base allocations and BGP routes.                 *)
(*                                                                         *)
(* An IPSet is modelled by the set of addresses it covers; netaddr keeps   *)
(* every IPSet in merged (minimal CIDR) form, so its CIDR entries are the  *)
(* maximal aligned blocks of that address set (MinimalCidrs).              *)
(* A CIDR is <<first address, prefix length>>.                             *)
(***************************************************************************)
EXTENDS Integers, Sequences, FiniteSets, TLC

\* ---- bounds of the model ----
\* Width of an address in bits (the program's addresses have 32).
AddrBits == 2
\* Size of the input of one run: configured ranges plus route records.
MaxInputs == 3
\* Configured ranges in one configuration document.
MaxCfg == 2
\* Route records in one device response during a run of cli.
MaxRoutes == 1
\* Route records in one response given to get_routes alone.
MaxRecords == 2
\* process_routes calls serialized in one folding schedule.
MaxFolds == 2

\* ---- addresses, CIDRs, IPSet ----
RECURSIVE Pow2(_)
Pow2(n) == IF n = 0 THEN 1 ELSE 2 * Pow2(n - 1)

\* Prefix length of a single-host route (32 in the program).
HostLen == AddrBits

Addrs == 0 .. (Pow2(AddrBits) - 1)

Cidrs == {c \in Addrs \X (0 .. AddrBits) : c[1] % Pow2(AddrBits - c[2]) = 0}

BlockOf == [c \in Cidrs |-> {a \in Addrs : a >= c[1] /\ a < c[1] + Pow2(AddrBits - c[2])}]

\* The addresses of a CIDR.
Block(c) == BlockOf[c]

\* IPSet(list): the addresses of a list of CIDRs.
IPSetOf(list) == UNION {Block(c) : c \in list}

\* cidr in ipset: IPSet.__contains__, true when the whole network is covered.
InSet(c, S) == Block(c) \subseteq S

\* a in b for two networks: IPNetwork.__contains__, subnet or equal.
NetIn(a, b) == Block(a) \subseteq Block(b)

\* The immediate supernet of a CIDR of prefix length > 0.
Parent(c) == <<c[1] - (c[1] % Pow2(AddrBits - c[2] + 1)), c[2] - 1>>

\* The entries of an IPSet: the maximal aligned blocks inside its addresses.
MinimalCidrs(S) == {c \in Cidrs : InSet(c, S) /\ (c[2] = 0 \/ ~InSet(Parent(c), S))}

RECURSIVE SortCidrs(_)
SortCidrs(cs) ==
  IF cs = {} THEN <<>>
  ELSE LET m == CHOOSE c \in cs : \A d \in cs : c[1] <= d[1]
       IN <<m>> \o SortCidrs(cs \ {m})

\* IPSet.iter_cidrs(): the entries in address order.
iter_cidrs(S) == SortCidrs(MinimalCidrs(S))

\* ipset_to_list: the list of the entries of an IPSet.
ipset_to_list(ipSetFrom) == iter_cidrs(ipSetFrom)

\* ---- configuration ----
Cities == {"A", "B", "C"}

\* Enumeration order of the cities dictionary (configuration order).
CityOrder == <<"A", "B", "C">>

\* Cities configured with both a device and a community.
RouteSource == [c \in Cities |-> c # "A"]

RECURSIVE SubsetsUpTo(_, _)
SubsetsUpTo(S, n) ==
  IF n = 0 THEN {{}}
  ELSE LET P == SubsetsUpTo(S, n - 1) IN P \cup {p \cup {x} : p \in P, x \in S}

\* One configured range: the list it is in, the city, the CIDR.
CfgItems == ({"cidrs", "override"} \X Cities \X Cidrs) \cup ({"paspace"} \X {"-"} \X Cidrs)

CfgOf(items) ==
  [cidrs    |-> [c \in Cities |-> {i[3] : i \in {j \in items : j[1] = "cidrs" /\ j[2] = c}}],
   override |-> [c \in Cities |-> {i[3] : i \in {j \in items : j[1] = "override" /\ j[2] = c}}],
   paspace  |-> {i[3] : i \in {j \in items : j[1] = "paspace"}}]

CfgSize(c) ==
  Cardinality(c.paspace)
  + Cardinality(UNION {{<<x, y>> : y \in c.cidrs[x]} : x \in Cities})
  + Cardinality(UNION {{<<x, y>> : y \in c.override[x]} : x \in Cities})

Configs == {CfgOf(items) : items \in SubsetsUpTo(CfgItems, MaxCfg)}

\* The cities table after the conversion loop.
NewCities(c) ==
  [city \in Cities |->
     [base |-> IPSetOf(c.cidrs[city]),
      additions |-> {}, exclude |-> {},
      piSpace |-> {}, smallpiSpace |-> {}, carvedSpace |-> {},
      override |-> IPSetOf(c.override[city]),
      cidrs |-> <<>>, piCidrs |-> <<>>]]

\* ---- AS-path text and route records ----
\* A text is a sequence of symbols; "AS path: " stands for that literal,
\* "1" for a digit, "x" for a letter other than I.
AsPaths ==
  { <<"AS path: ", "I", " ", "(">>,
    <<"AS path: ", "?", " ", "(">>,
    <<"AS path: ", "1", " ", "I", " ", "(">>,
    <<"AS path: ", "x">>,
    <<"AS path: ", " ", " ", "(">> }

\* [\d\?I\s]
GroupChars == {"1", "I", "?", " "}

\* [\w\(]
WordOrParen == {"1", "I", "x", "("}

\* The lengths the group of aspathRE can take for a text.
GroupEnds(t) ==
  {k \in 2 .. (Len(t) - 2) :
     /\ t[1] = "AS path: "
     /\ \A i \in 2 .. k : t[i] \in GroupChars
     /\ t[k + 1] = " "
     /\ t[k + 2] \in WordOrParen}

\* aspathRE.match(text): whether the text matches.
aspathMatch(t) == GroupEnds(t) # {}

\* aspathMatch.group(1): the greedy group.
Group1(t) ==
  LET k == CHOOSE e \in GroupEnds(t) : \A f \in GroupEnds(t) : f <= e
  IN SubSeq(t, 2, k)

\* str.split(): the whitespace-separated tokens of a string.
RECURSIVE Split(_)
Split(s) ==
  IF s = <<>> THEN <<>>
  ELSE IF Head(s) = " " THEN Split(Tail(s))
  ELSE LET ends == {i \in 1 .. Len(s) : s[i] = " "}
           n == IF ends = {} THEN Len(s)
                ELSE (CHOOSE i \in ends : \A j \in ends : i <= j) - 1
       IN <<SubSeq(s, 1, n)>> \o Split(SubSeq(s, n + 1, Len(s)))

Records == [cidr : Cidrs, aspath : AsPaths]

RECURSIVE SeqsUpTo(_, _)
SeqsUpTo(S, n) ==
  IF n = 0 THEN {<<>>}
  ELSE LET P == SeqsUpTo(S, n - 1) IN P \cup {Append(p, x) : p \in P, x \in S}

\* What a device query can give: a failure of the connection or the RPC,
\* or the list of rt elements.
Responses(n) ==
  {[failed |-> TRUE, routes |-> <<>>]}
  \cup {[failed |-> FALSE, routes |-> r] : r \in SeqsUpTo(Records, n)}

\* The responses of a device during a run of cli.
RunResponses == Responses(MaxRoutes)

\* get_routes returning None, None.
None == [none |-> TRUE, prefixSet |-> {}, carvedSet |-> {}, log |-> {}]

\* RouteStep with the host test off by one (prefixLen > 32).
RouteStepHostOff(acc, rt, piSpace, pa) ==
  LET cidr == rt.cidr
  IN IF cidr[2] > HostLen
       THEN [acc EXCEPT !.log = @ \cup {<<"hostroute">>}]
     ELSE IF piSpace /\ InSet(cidr, pa)
       THEN IF ~aspathMatch(rt.aspath)
              THEN acc
            ELSE LET fullaspath == Split(Group1(rt.aspath))
                 IN IF Len(fullaspath) = 0
                      THEN [acc EXCEPT !.raised = TRUE]
                    ELSE IF fullaspath[1] # <<"I">> /\ fullaspath[1] # <<"?">>
                      THEN [acc EXCEPT !.carvedSet = @ \cup Block(cidr)]
                    ELSE acc
     ELSE [acc EXCEPT !.prefixSet = @ \cup Block(cidr)]

\* RouteStep without the continue after carvedSet.add: the carved cidr goes
\* on to prefixSet.add.
RouteStepNoContinue(acc, rt, piSpace, pa) ==
  LET cidr == rt.cidr
  IN IF cidr[2] >= HostLen
       THEN [acc EXCEPT !.log = @ \cup {<<"hostroute">>}]
     ELSE IF piSpace /\ InSet(cidr, pa)
       THEN IF ~aspathMatch(rt.aspath)
              THEN acc
            ELSE LET fullaspath == Split(Group1(rt.aspath))
                 IN IF Len(fullaspath) = 0
                      THEN [acc EXCEPT !.raised = TRUE]
                    ELSE IF fullaspath[1] # <<"I">> /\ fullaspath[1] # <<"?">>
                      THEN [acc EXCEPT !.carvedSet = @ \cup Block(cidr),
                                       !.prefixSet = @ \cup Block(cidr)]
                    ELSE acc
     ELSE [acc EXCEPT !.prefixSet = @ \cup Block(cidr)]

\* The body of the loop over the rt elements for one element; raised is set
\* when a statement of the body raises.
RouteStep(acc, rt, piSpace, pa) ==
  LET cidr == rt.cidr
  IN IF cidr[2] >= HostLen
       THEN [acc EXCEPT !.log = @ \cup {<<"hostroute">>}]
     ELSE IF piSpace /\ InSet(cidr, pa)
       THEN IF ~aspathMatch(rt.aspath)
              THEN acc
            ELSE LET fullaspath == Split(Group1(rt.aspath))
                 IN IF Len(fullaspath) = 0
                      THEN [acc EXCEPT !.raised = TRUE]
                    ELSE IF fullaspath[1] # <<"I">> /\ fullaspath[1] # <<"?">>
                      THEN [acc EXCEPT !.carvedSet = @ \cup Block(cidr)]
                    ELSE acc
     ELSE [acc EXCEPT !.prefixSet = @ \cup Block(cidr)]

\* The loop over the rt elements, from element i on; an exception ends it.
RECURSIVE RouteLoop(_, _, _, _, _)
RouteLoop(routes, i, piSpace, pa, acc) ==
  IF i > Len(routes) \/ acc.raised THEN acc
  ELSE RouteLoop(routes, i + 1, piSpace, pa, RouteStep(acc, routes[i], piSpace, pa))

\* get_routes(host, communities, piSpace) for a given response of the device.
get_routes(resp, piSpace, pa) ==
  IF resp.failed THEN None
  ELSE IF Len(resp.routes) = 0 THEN None
  ELSE LET r == RouteLoop(resp.routes, 1, piSpace, pa,
                          [prefixSet |-> {}, carvedSet |-> {}, log |-> {}, raised |-> FALSE])
       IN IF r.raised THEN [None EXCEPT !.log = r.log]
          ELSE [none |-> FALSE, prefixSet |-> r.prefixSet, carvedSet |-> r.carvedSet,
                log |-> r.log]

\* ---- process_routes ----
\* The first city, in enumeration order, whose base holds the cidr; 0 if none.
SupernetIdx(cs, cidr) ==
  LET hits == {i \in 1 .. Len(CityOrder) : InSet(cidr, cs[CityOrder[i]].base)}
  IN IF hits = {} THEN 0 ELSE CHOOSE i \in hits : \A j \in hits : i <= j

\* FoldCidr without the exclude.add on the city the range comes out of.
FoldCidrNoExclude(w, cidr, city, piSpace, carvedSpace) ==
  LET cs == w.cities
      blk == Block(cidr)
  IN IF InSet(cidr, cs[city].base)
       THEN IF carvedSpace
              THEN [w EXCEPT !.cities[city].exclude = @ \cup blk,
                             !.cities[city].carvedSpace = @ \cup blk]
            ELSE w
     ELSE LET k == SupernetIdx(cs, cidr)
          IN IF k # 0
               THEN LET snCity == CityOrder[k]
                    IN IF carvedSpace
                         THEN [w EXCEPT !.cities[city].carvedSpace = @ \cup blk]
                       ELSE [w EXCEPT !.cities[city].additions = @ \cup blk,
                                      !.log = @ \cup {<<"moving", cidr, snCity, city>>}]
             ELSE IF piSpace
               THEN [w EXCEPT !.cities[city].piSpace = @ \cup blk]
             ELSE [w EXCEPT !.cities[city].smallpiSpace = @ \cup blk]

\* FoldCidr taking the range out of the owner's base at once, not in exclude.
FoldCidrShrinkBase(w, cidr, city, piSpace, carvedSpace) ==
  LET cs == w.cities
      blk == Block(cidr)
  IN IF InSet(cidr, cs[city].base)
       THEN IF carvedSpace
              THEN [w EXCEPT !.cities[city].base = @ \ blk,
                             !.cities[city].carvedSpace = @ \cup blk]
            ELSE w
     ELSE LET k == SupernetIdx(cs, cidr)
          IN IF k # 0
               THEN LET snCity == CityOrder[k]
                    IN IF carvedSpace
                         THEN [w EXCEPT !.cities[snCity].base = @ \ blk,
                                        !.cities[city].carvedSpace = @ \cup blk]
                       ELSE [w EXCEPT !.cities[snCity].base = @ \ blk,
                                      !.cities[city].additions = @ \cup blk,
                                      !.log = @ \cup {<<"moving", cidr, snCity, city>>}]
             ELSE IF piSpace
               THEN [w EXCEPT !.cities[city].piSpace = @ \cup blk]
             ELSE [w EXCEPT !.cities[city].smallpiSpace = @ \cup blk]

\* The body of the loop of process_routes for one cidr; w is the cities
\* table and the messages printed.
FoldCidr(w, cidr, city, piSpace, carvedSpace) ==
  LET cs == w.cities
      blk == Block(cidr)
  IN IF InSet(cidr, cs[city].base)
       THEN IF carvedSpace
              THEN [w EXCEPT !.cities[city].exclude = @ \cup blk,
                             !.cities[city].carvedSpace = @ \cup blk]
            ELSE w
     ELSE LET k == SupernetIdx(cs, cidr)
          IN IF k # 0
               THEN LET snCity == CityOrder[k]
                    IN IF carvedSpace
                         THEN [w EXCEPT !.cities[snCity].exclude = @ \cup blk,
                                        !.cities[city].carvedSpace = @ \cup blk]
                       ELSE [w EXCEPT !.cities[snCity].exclude = @ \cup blk,
                                      !.cities[city].additions = @ \cup blk,
                                      !.log = @ \cup {<<"moving", cidr, snCity, city>>}]
             ELSE IF piSpace
               THEN [w EXCEPT !.cities[city].piSpace = @ \cup blk]
             ELSE [w EXCEPT !.cities[city].smallpiSpace = @ \cup blk]

RECURSIVE FoldFrom(_, _, _, _, _, _)
FoldFrom(w, cidrs, i, city, piSpace, carvedSpace) ==
  IF i > Len(cidrs) THEN w
  ELSE FoldFrom(FoldCidr(w, cidrs[i], city, piSpace, carvedSpace),
                cidrs, i + 1, city, piSpace, carvedSpace)

\* process_routes(prefixSet, country, city, piSpace, carvedSpace)
process_routes(w, prefixSet, city, piSpace, carvedSpace) ==
  FoldFrom(w, iter_cidrs(prefixSet), 1, city, piSpace, carvedSpace)

\* The two calls that follow one get_routes call in cli.
FoldResult(w, r, city, piSpace) ==
  IF r.none THEN [w EXCEPT !.log = @ \cup r.log]
  ELSE process_routes(
         process_routes([w EXCEPT !.log = @ \cup r.log], r.prefixSet, city, piSpace, FALSE),
         r.carvedSet, city, piSpace, TRUE)

\* ---- the phases of cli after the queries ----
\* HasError looking only at the cities after city in the enumeration.
HasErrorOneWay(cs) ==
  \E i \in 1 .. Len(CityOrder) : \E j \in (i + 1) .. Len(CityOrder) :
    \E n \in 1 .. Len(iter_cidrs(cs[CityOrder[i]].base)) :
      InSet(iter_cidrs(cs[CityOrder[i]].base)[n], cs[CityOrder[j]].base)

\* The check for overlapping base allocations: hasError.
HasError(cs) ==
  \E city \in Cities : \E checkCity \in Cities \ {city} :
    \E i \in 1 .. Len(iter_cidrs(cs[city].base)) :
      InSet(iter_cidrs(cs[city].base)[i], cs[checkCity].base)

\* smallPISpace: the union of every city's smallpiSpace.
SmallPISpace(cs) == UNION {cs[c].smallpiSpace : c \in Cities}

\* DedupStep removing only a cidr that strictly contains the small cidr.
DedupStepStrict(pi, smallcidr) ==
  LET hit == {c \in MinimalCidrs(pi) : NetIn(smallcidr, c) /\ smallcidr # c}
  IN IF hit = {} THEN pi ELSE pi \ Block(SortCidrs(hit)[1])

\* The loop over a city's piSpace for one cidr of smallPISpace: the first
\* entry that contains it is removed.
DedupStep(pi, smallcidr) ==
  LET hit == {c \in MinimalCidrs(pi) : NetIn(smallcidr, c)}
  IN IF hit = {} THEN pi ELSE pi \ Block(SortCidrs(hit)[1])

\* One city's piSpace after the loop over smallPISpace, from entry i on.
RECURSIVE DedupFrom(_, _, _)
DedupFrom(pi, small, i) ==
  IF i > Len(small) THEN pi ELSE DedupFrom(DedupStep(pi, small[i]), small, i + 1)

\* The removal of containing PI cidrs, for every city.
Dedup(cs) ==
  [c \in Cities |->
     [cs[c] EXCEPT !.piSpace = DedupFrom(@, iter_cidrs(SmallPISpace(cs)), 1)]]

\* Consolidation of one city's results.
Consolidate(cs) ==
  [c \in Cities |->
     [cs[c] EXCEPT
        !.base = ((cs[c].base \cup cs[c].additions) \ cs[c].exclude) \cup cs[c].override,
        !.piSpace = cs[c].piSpace \cup cs[c].smallpiSpace \cup cs[c].carvedSpace,
        !.additions = {}, !.exclude = {}, !.smallpiSpace = {}, !.carvedSpace = {}]]

\* The (city, cidr, checkCity) steps of the override loop, in order.
RECURSIVE OverrideSteps(_, _, _, _)
OverrideSteps(cs, i, j, k) ==
  IF i > Len(CityOrder) THEN <<>>
  ELSE LET city == CityOrder[i]
           ov == iter_cidrs(cs[city].override)
       IN IF j > Len(ov) THEN OverrideSteps(cs, i + 1, 1, 1)
          ELSE IF k > Len(CityOrder) THEN OverrideSteps(cs, i, j + 1, 1)
          ELSE IF CityOrder[k] = city THEN OverrideSteps(cs, i, j, k + 1)
          ELSE <<[cidr |-> ov[j], checkCity |-> CityOrder[k]]>>
               \o OverrideSteps(cs, i, j, k + 1)

\* OverrideStep without the removal from piSpace.
OverrideStepBaseOnly(cs, s) ==
  IF InSet(s.cidr, cs[s.checkCity].base)
    THEN [cs EXCEPT ![s.checkCity].base = @ \ Block(s.cidr)] ELSE cs

\* The body of the override loop for one cidr and one other city.
OverrideStep(cs, s) ==
  LET rmBase == IF InSet(s.cidr, cs[s.checkCity].base)
                  THEN [cs EXCEPT ![s.checkCity].base = @ \ Block(s.cidr)] ELSE cs
  IN IF InSet(s.cidr, rmBase[s.checkCity].piSpace)
       THEN [rmBase EXCEPT ![s.checkCity].piSpace = @ \ Block(s.cidr)] ELSE rmBase

RECURSIVE OverrideFrom(_, _, _)
OverrideFrom(cs, steps, i) ==
  IF i > Len(steps) THEN cs ELSE OverrideFrom(OverrideStep(cs, steps[i]), steps, i + 1)

\* Removal of every city's override from the other cities.
RemoveOverrides(cs) ==
  LET r == OverrideFrom(cs, OverrideSteps(cs, 1, 1, 1), 1)
  IN [c \in Cities |-> [r[c] EXCEPT !.override = {}]]

\* Conversion for the json output.
Convert(cs) ==
  [c \in Cities |->
     [cs[c] EXCEPT !.cidrs = ipset_to_list(cs[c].base), !.base = {},
                   !.piCidrs = ipset_to_list(cs[c].piSpace), !.piSpace = {}]]

\* ---- state ----
VARIABLES
  pc,          \* position of cli
  cfg,         \* the configuration document
  cities,      \* the cities table
  paSpaceSet,  \* the PA space
  cityIdx,     \* position of the query loop in CityOrder
  queries,     \* get_routes calls made
  budget,      \* route records the devices may still return
  exitStatus,  \* exit status of the process, -1 while it runs
  log,         \* messages printed
  piSpaceIn,   \* every city's piSpace when the PI overlap check started
  routesXML,   \* the response get_routes is applied to
  piMode,      \* the piSpace argument of that get_routes call
  returned,    \* what that get_routes call returned
  foldCalls,   \* the process_routes calls of a folding schedule
  schedule     \* the calls of foldCalls made so far, in the order made

vars == <<pc, cfg, cities, paSpaceSet, cityIdx, queries, budget, exitStatus, log,
          piSpaceIn, routesXML, piMode, returned, foldCalls, schedule>>

NoPi == [c \in Cities |-> {}]

NoResponse == [failed |-> TRUE, routes |-> <<>>]

\* The variables that only a get_routes call alone or a folding schedule use.
Idle ==
  /\ routesXML = NoResponse
  /\ piMode = FALSE
  /\ returned = None
  /\ foldCalls = <<>>
  /\ schedule = <<>>

Init ==
  /\ cfg \in Configs
  /\ pc = "check"
  /\ cities = NewCities(cfg)
  /\ paSpaceSet = {}
  /\ cityIdx = 1
  /\ queries = 0
  /\ budget = MaxInputs - CfgSize(cfg)
  /\ exitStatus = -1
  /\ log = {}
  /\ piSpaceIn = NoPi
  /\ Idle

\* The overlap check ends the run: sys.exit() with no argument.
Abort ==
  /\ pc = "check"
  /\ HasError(cities)
  /\ pc' = "aborted"
  /\ exitStatus' = 0
  /\ UNCHANGED <<cfg, cities, paSpaceSet, cityIdx, queries, budget, log, piSpaceIn,
                 routesXML, piMode, returned, foldCalls, schedule>>

\* The overlap check passes and the PA space is converted.
LoadPaSpace ==
  /\ pc = "check"
  /\ ~HasError(cities)
  /\ paSpaceSet' = paSpaceSet \cup IPSetOf(cfg.paspace)
  /\ pc' = "own"
  /\ UNCHANGED <<cfg, cities, cityIdx, queries, budget, exitStatus, log, piSpaceIn,
                 routesXML, piMode, returned, foldCalls, schedule>>

\* Where cli is after the query loop moved on to position i.
AfterCity(i) == IF i > Len(CityOrder) THEN "dedup" ELSE "own"

\* A city without community or device is skipped.
SkipCity ==
  /\ pc = "own"
  /\ ~RouteSource[CityOrder[cityIdx]]
  /\ cityIdx' = cityIdx + 1
  /\ pc' = AfterCity(cityIdx')
  /\ UNCHANGED <<cfg, cities, paSpaceSet, queries, budget, exitStatus, log, piSpaceIn,
                 routesXML, piMode, returned, foldCalls, schedule>>

\* One get_routes call and the process_routes calls on its result.
Query(piSpace, resp) ==
  LET city == CityOrder[cityIdx]
      w == FoldResult([cities |-> cities, log |-> log],
                      get_routes(resp, piSpace, paSpaceSet), city, piSpace)
  IN /\ cities' = w.cities
     /\ log' = w.log
     /\ queries' = queries + 1
     /\ budget' = budget - Len(resp.routes)

\* The query for internal and small prefix routes.
QueryOwn ==
  /\ pc = "own"
  /\ RouteSource[CityOrder[cityIdx]]
  /\ \E resp \in {r \in RunResponses : Len(r.routes) <= budget} :
       Query(FALSE, resp)
  /\ pc' = "pi"
  /\ UNCHANGED <<cfg, paSpaceSet, cityIdx, exitStatus, piSpaceIn,
                 routesXML, piMode, returned, foldCalls, schedule>>

\* The query for prefixes announced by external ASNs.
QueryPI ==
  /\ pc = "pi"
  /\ \E resp \in {r \in RunResponses : Len(r.routes) <= budget} :
       Query(TRUE, resp)
  /\ cityIdx' = cityIdx + 1
  /\ pc' = AfterCity(cityIdx')
  /\ UNCHANGED <<cfg, paSpaceSet, exitStatus, piSpaceIn,
                 routesXML, piMode, returned, foldCalls, schedule>>

\* The check for overlapping PI address space.
DedupPI ==
  /\ pc = "dedup"
  /\ piSpaceIn' = [c \in Cities |-> cities[c].piSpace]
  /\ cities' = Dedup(cities)
  /\ pc' = "consolidate"
  /\ UNCHANGED <<cfg, paSpaceSet, cityIdx, queries, budget, exitStatus, log,
                 routesXML, piMode, returned, foldCalls, schedule>>

\* Consolidation of the results of every city.
ConsolidateAll ==
  /\ pc = "consolidate"
  /\ cities' = Consolidate(cities)
  /\ pc' = "override"
  /\ UNCHANGED <<cfg, paSpaceSet, cityIdx, queries, budget, exitStatus, log, piSpaceIn,
                 routesXML, piMode, returned, foldCalls, schedule>>

\* Removal of the overrides from the other cities.
OverrideAll ==
  /\ pc = "override"
  /\ cities' = RemoveOverrides(cities)
  /\ pc' = "convert"
  /\ UNCHANGED <<cfg, paSpaceSet, cityIdx, queries, budget, exitStatus, log, piSpaceIn,
                 routesXML, piMode, returned, foldCalls, schedule>>

\* Conversion, output, and the normal end of the process.
Output ==
  /\ pc = "convert"
  /\ cities' = Convert(cities)
  /\ pc' = "done"
  /\ exitStatus' = 0
  /\ UNCHANGED <<cfg, paSpaceSet, cityIdx, queries, budget, log, piSpaceIn,
                 routesXML, piMode, returned, foldCalls, schedule>>

Next ==
  \/ Abort
  \/ LoadPaSpace
  \/ SkipCity
  \/ QueryOwn
  \/ QueryPI
  \/ DedupPI
  \/ ConsolidateAll
  \/ OverrideAll
  \/ Output

\* A run of cli.
Spec == Init /\ [][Next]_vars

\* ---- get_routes alone ----
\* The PA spaces of the configurations.
PaSets == {IPSetOf(l) : l \in SubsetsUpTo(Cidrs, MaxCfg)}

InitRoutes ==
  /\ routesXML \in Responses(MaxRecords)
  /\ piMode \in BOOLEAN
  /\ paSpaceSet \in PaSets
  /\ returned = None
  /\ pc = "classify"
  /\ cfg = CfgOf({})
  /\ cities = NewCities(cfg)
  /\ cityIdx = 1
  /\ queries = 0
  /\ budget = 0
  /\ exitStatus = -1
  /\ log = {}
  /\ piSpaceIn = NoPi
  /\ foldCalls = <<>>
  /\ schedule = <<>>

\* One call of get_routes.
Classify ==
  /\ pc = "classify"
  /\ returned' = get_routes(routesXML, piMode, paSpaceSet)
  /\ queries' = queries + 1
  /\ pc' = "classified"
  /\ UNCHANGED <<cfg, cities, paSpaceSet, cityIdx, budget, exitStatus, log, piSpaceIn,
                 routesXML, piMode, foldCalls, schedule>>

NextRoutes == Classify

SpecRoutes == InitRoutes /\ [][NextRoutes]_vars

\* ---- the PI overlap check alone ----
NonHostCidrs == {c \in Cidrs : c[2] < HostLen}

SourceCities == {c \in Cities : RouteSource[c]}

\* One range in a city's piSpace or smallpiSpace.
PiItems == {"piSpace", "smallpiSpace"} \X SourceCities \X NonHostCidrs

PiOf(items, field, city) ==
  IPSetOf({i[3] : i \in {j \in items : j[1] = field /\ j[2] = city}})

\* The cities table at the end of the query loop of a run without base
\* allocations, in which the ranges of items went to piSpace and smallpiSpace.
CitiesWithPi(items) ==
  [c \in Cities |->
     [NewCities(CfgOf({}))[c] EXCEPT !.piSpace = PiOf(items, "piSpace", c),
                                     !.smallpiSpace = PiOf(items, "smallpiSpace", c)]]

InitDedup ==
  /\ cfg = CfgOf({})
  /\ cities \in {CitiesWithPi(items) : items \in SubsetsUpTo(PiItems, MaxInputs)}
  /\ pc = "dedup"
  /\ paSpaceSet = {}
  /\ cityIdx = Len(CityOrder) + 1
  /\ queries = 2 * Cardinality(SourceCities)
  /\ budget = 0
  /\ exitStatus = -1
  /\ log = {}
  /\ piSpaceIn = NoPi
  /\ Idle

NextDedup == DedupPI

SpecDedup == InitDedup /\ [][NextDedup]_vars

\* ---- folding schedules ----
\* The sets get_routes can return.
RouteSets == {IPSetOf(l) : l \in SubsetsUpTo(NonHostCidrs, MaxRecords)} \ {{}}

FoldCalls == [city : SourceCities, prefixSet : RouteSets, piSpace : BOOLEAN,
              carvedSpace : BOOLEAN]

FoldConfigs == {c \in Configs : c.paspace = {} /\ ~HasError(NewCities(c))}

FoldSchedules == SeqsUpTo(FoldCalls, MaxFolds)

InitFold ==
  /\ cfg \in FoldConfigs
  /\ foldCalls \in {f \in FoldSchedules : Len(f) >= 2 /\ Len(f) <= MaxInputs - CfgSize(cfg)}
  /\ schedule = <<>>
  /\ pc = "fold"
  /\ cities = NewCities(cfg)
  /\ paSpaceSet = {}
  /\ cityIdx = Len(CityOrder) + 1
  /\ queries = 0
  /\ budget = 0
  /\ exitStatus = -1
  /\ log = {}
  /\ piSpaceIn = NoPi
  /\ routesXML = NoResponse
  /\ piMode = FALSE
  /\ returned = None

Scheduled == {schedule[i] : i \in 1 .. Len(schedule)}

\* The process_routes call number i of the schedule is made.
Fold(i) ==
  /\ pc = "fold"
  /\ i \notin Scheduled
  /\ LET f == foldCalls[i]
         w == process_routes([cities |-> cities, log |-> log],
                             f.prefixSet, f.city, f.piSpace, f.carvedSpace)
     IN /\ cities' = w.cities
        /\ log' = w.log
  /\ schedule' = Append(schedule, i)
  /\ pc' = IF Len(schedule') = Len(foldCalls) THEN "dedup" ELSE "fold"
  /\ UNCHANGED <<cfg, paSpaceSet, cityIdx, queries, budget, exitStatus, piSpaceIn,
                 routesXML, piMode, returned, foldCalls>>

FoldAny == \E i \in 1 .. Len(foldCalls) : Fold(i)

NextFold == FoldAny

\* The process_routes calls of the query loop serialized in any order.
SpecFold == InitFold /\ [][NextFold]_vars

\* ---- properties ----
\* Two configured base allocations share an address.
BasesOverlap ==
  \E r \in Cities : \E q \in Cities \ {r} :
    IPSetOf(cfg.cidrs[r]) \cap IPSetOf(cfg.cidrs[q]) # {}

\* C1: when two cities' configured base allocations share an address the
\* run ends in the overlap check and no get_routes call is ever made; calls
\* are made only in runs whose base allocations are pairwise disjoint.
C1_AbortBeforeQuery ==
  /\ BasesOverlap => (queries = 0 /\ pc \in {"check", "aborted"})
  /\ queries > 0 => ~BasesOverlap

C1_Witness == pc = "aborted" /\ BasesOverlap /\ queries = 0

\* C2: after the removal of the overrides, the last step that changes a
\* base, no two cities' base sets share an address.
C2_FinalBasesDisjoint ==
  pc = "convert" =>
    \A r \in Cities : \A q \in Cities \ {r} : cities[r].base \cap cities[q].base = {}

\* C3 as stated: at the end of the run no range listed in a city's
\* configured override is inside another city's base or piSpace.
C3_ListedOverrideExclusive ==
  pc = "convert" =>
    \A r \in Cities : \A x \in cfg.override[r] : \A q \in Cities \ {r} :
      ~InSet(x, cities[q].base) /\ ~InSet(x, cities[q].piSpace)

\* C3 as amended: at the end of the run no entry of a city's override set in
\* its merged form is inside another city's base or piSpace.
C3_OverrideEntryExclusive ==
  pc = "convert" =>
    \A r \in Cities : \A x \in MinimalCidrs(IPSetOf(cfg.override[r])) :
      \A q \in Cities \ {r} :
        ~InSet(x, cities[q].base) /\ ~InSet(x, cities[q].piSpace)

\* An override entry of one city was inside another city's configured base,
\* no route changed that base, and the run is past the override removal.
C3_Witness ==
  /\ pc = "convert"
  /\ budget = MaxInputs - CfgSize(cfg)
  /\ \E r \in Cities : \E x \in MinimalCidrs(IPSetOf(cfg.override[r])) :
       \E q \in Cities \ {r} : InSet(x, IPSetOf(cfg.cidrs[q]))

\* A list of cidrs has an entry of the single-host prefix length.
HasHost(list) == \E i \in 1 .. Len(list) : list[i][2] = HostLen

\* C4 as stated: no single-host range is in any city's final cidrs or
\* piCidrs, whatever the configuration and the routes.
C4_NoHostOutput ==
  pc = "done" =>
    \A c \in Cities : ~HasHost(cities[c].cidrs) /\ ~HasHost(cities[c].piCidrs)

\* No configured base or override range is a single-host range.
HostFreeCfg ==
  \A c \in Cities : \A x \in cfg.cidrs[c] \cup cfg.override[c] : x[2] < HostLen

\* C4 as amended: when no configured base or override range is a single-host
\* range, no single-host range is in any city's final cidrs or piCidrs,
\* whatever routes the queries return.
C4_NoHostOutputFromRoutes == HostFreeCfg => C4_NoHostOutput

\* A run that was given a single-host route ended with a range in its output.
C4_Witness ==
  /\ pc = "done"
  /\ HostFreeCfg
  /\ <<"hostroute">> \in log
  /\ \E c \in Cities : cities[c].piCidrs # <<>>

\* C5 as stated: the two sets get_routes returns share no address.
C5_ReturnedDisjoint ==
  pc = "classified" => returned.prefixSet \cap returned.carvedSet = {}

\* Record i of the response is outside the PA space and strictly contains
\* record j, which is inside the PA space.
SupernetPair(i, j) ==
  LET a == routesXML.routes[i].cidr
      b == routesXML.routes[j].cidr
  IN /\ a[2] < HostLen /\ b[2] < HostLen
     /\ ~InSet(a, paSpaceSet) /\ InSet(b, paSpaceSet)
     /\ NetIn(b, a) /\ a # b

\* C5 as amended: with piSpace false the carved set is empty; with piSpace
\* true the two sets share an address only when a record outside the PA
\* space strictly contains a record inside it.
C5_OverlapOnlyBySupernet ==
  pc = "classified" =>
    /\ ~piMode => returned.carvedSet = {}
    /\ returned.prefixSet \cap returned.carvedSet # {} =>
         \E i \in 1 .. Len(routesXML.routes) : \E j \in 1 .. Len(routesXML.routes) :
           SupernetPair(i, j)

\* A PI query gave both a prefix set and a carved set, and they are disjoint.
C5_Witness ==
  /\ pc = "classified" /\ piMode
  /\ returned.prefixSet # {} /\ returned.carvedSet # {}
  /\ returned.prefixSet \cap returned.carvedSet = {}

\* C6: a run ended by the overlap check has a non-zero exit status, any
\* other run ends with exit status zero.
C6_ExitStatus ==
  /\ pc = "aborted" => exitStatus # 0
  /\ pc = "done" => exitStatus = 0

\* No origin token can be taken from the AS-path text of a record.
Unparseable(rt) ==
  IF aspathMatch(rt.aspath) THEN Split(Group1(rt.aspath)) = <<>> ELSE TRUE

\* A record for which a PI query reads the AS path.
InPa(rt) == rt.cidr[2] < HostLen /\ InSet(rt.cidr, paSpaceSet)

RemoveAt(seq, k) == SubSeq(seq, 1, k - 1) \o SubSeq(seq, k + 1, Len(seq))

\* C7: in a PI query, when one record inside the PA space has an AS path
\* from which no origin token can be taken, the sets returned are those of
\* the response without that record.
C7_ParseFailureLocal ==
  (pc = "classified" /\ piMode /\ ~routesXML.failed) =>
    \A k \in 1 .. Len(routesXML.routes) :
      (/\ InPa(routesXML.routes[k]) /\ Unparseable(routesXML.routes[k])
       /\ \A j \in 1 .. Len(routesXML.routes) :
            (j # k /\ InPa(routesXML.routes[j])) => ~Unparseable(routesXML.routes[j]))
      => LET without == get_routes([routesXML EXCEPT !.routes = RemoveAt(@, k)],
                                   piMode, paSpaceSet)
         IN /\ returned.prefixSet = without.prefixSet
            /\ returned.carvedSet = without.carvedSet

NoOverride == \A c \in Cities : cfg.override[c] = {}

\* C8: with no override configured, whenever process_routes moves a range c
\* from a city Q, whose base holds it, to a city R, whose base does not, c is
\* in Q's exclude and R's additions from then on, and at the end of the run
\* Q's base has no address of c and R's base has all of them.
C8_Reassignment ==
  NoOverride =>
    \A m \in log : m[1] = "moving" =>
      LET c == m[2]
          Q == m[3]
          R == m[4]
      IN /\ Q # R
         /\ InSet(c, IPSetOf(cfg.cidrs[Q])) /\ ~InSet(c, IPSetOf(cfg.cidrs[R]))
         /\ pc \in {"own", "pi", "dedup", "consolidate"} =>
              InSet(c, cities[Q].exclude) /\ InSet(c, cities[R].additions)
         /\ pc \in {"override", "convert"} =>
              Block(c) \cap cities[Q].base = {} /\ InSet(c, cities[R].base)
         /\ pc = "done" =>
              /\ Block(c) \cap IPSetOf({cities[Q].cidrs[i] : i \in 1 .. Len(cities[Q].cidrs)}) = {}
              /\ InSet(c, IPSetOf({cities[R].cidrs[i] : i \in 1 .. Len(cities[R].cidrs)}))

C8_Witness ==
  /\ pc = "done" /\ NoOverride
  /\ \E m \in log : m[1] = "moving"

\* The entries of a city's piSpace before the PI overlap check that contain
\* (strictly, or at all) no entry of smallPISpace.
KeptEntries(c, strict) ==
  {e \in MinimalCidrs(piSpaceIn[c]) :
     \A u \in MinimalCidrs(SmallPISpace(cities)) :
       ~(NetIn(u, e) /\ (strict => u # e))}

\* C9 as stated: after the PI overlap check a city's piSpace has exactly
\* the entries it had that strictly contain no entry of smallPISpace.
C9_DropsStrictSupernets ==
  pc = "consolidate" =>
    \A c \in Cities : MinimalCidrs(cities[c].piSpace) = KeptEntries(c, TRUE)

\* C9 as amended: after the PI overlap check a city's piSpace has exactly
\* the entries it had that contain no entry of smallPISpace; an entry equal
\* to an entry of smallPISpace is dropped as well.
C9_DropsSupernetsAndEquals ==
  pc = "consolidate" =>
    \A c \in Cities : MinimalCidrs(cities[c].piSpace) = KeptEntries(c, FALSE)

\* The check dropped an entry equal to an entry of smallPISpace and another
\* city kept an entry.
C9_Witness ==
  /\ pc = "consolidate"
  /\ \E c \in Cities : \E e \in MinimalCidrs(piSpaceIn[c]) :
       /\ e \in MinimalCidrs(SmallPISpace(cities))
       /\ ~InSet(e, cities[c].piSpace)
  /\ \E c \in Cities : cities[c].piSpace # {}

\* The calls of foldCalls made in the order of the list.
RECURSIVE InOrder(_, _)
InOrder(w, i) ==
  IF i > Len(foldCalls) THEN w
  ELSE InOrder(process_routes(w, foldCalls[i].prefixSet, foldCalls[i].city,
                              foldCalls[i].piSpace, foldCalls[i].carvedSpace), i + 1)

\* C10: the process_routes calls leave every base as configured, and made
\* in any order they give the additions, exclude, piSpace, smallpiSpace and
\* carvedSpace that the calls made in the order of the list give.
C10_FoldOrderIndependent ==
  /\ pc = "fold" => \A c \in Cities : cities[c].base = IPSetOf(cfg.cidrs[c])
  /\ (pc = "dedup" /\ foldCalls # <<>>) =>
       cities = InOrder([cities |-> NewCities(cfg), log |-> {}], 1).cities

\* Two calls for different cities on ranges that meet inside a base were
\* made in the reverse of the order of the list.
C10_Witness ==
  /\ pc = "dedup"
  /\ Len(schedule) >= 2 /\ schedule[1] > schedule[2]
  /\ foldCalls[1].city # foldCalls[2].city
  /\ foldCalls[1].prefixSet \cap foldCalls[2].prefixSet # {}
  /\ \E m \in log : m[1] = "moving"

====
